---- MODULE Spec2Model ----
(***************************************************************************)
(* Flotilla: FlotillaBuilder::run (src/src/lib.rs) as a state machine.     *)
(* One action per awaited EC2 call / per step of the bootstrap workers.    *)
(* The outcome of every EC2 call (success, API error, a response with an   *)
(* Option field missing) is an input of the action that issues the call.   *)
(***************************************************************************)
EXTENDS Integers, FiniteSets, Sequences, TLC

\* ---- bounds ----
\* at most MaxPolls describe_spot_instance_requests calls in a run
MaxPolls == 2
\* at most MaxReadyPolls describe_instances calls in a run
MaxReadyPolls == 2

\* ---- the descriptors registered by add_set before run: a machine set of
\* one machine and one of two, whose closures run concurrently ----
descriptors == [server |-> 1, client |-> 2]
Names == DOMAIN descriptors

\* request ids the provider hands out for one capacity request of `name`
SirIds(name) == {<<"sir", name, k>> : k \in 1..descriptors[name]}
AllSirIds == UNION {SirIds(name) : name \in Names}
\* the instance a fulfilled request launches
InstanceOf(sir) == <<"i", sir[2], sir[3]>>
AllInstanceIds == {InstanceOf(s) : s \in AllSirIds}

\* the machine set whose capacity request produced the instance / request
OwnerOf(id) == id[2]

NoValue == "none"
\* the generated names: "flotilla_security_" / "flotilla_key_" + 10 random chars
SecurityGroupId == "sg_flotilla_security"
KeyName == "flotilla_key"
SirStates == {"open", "active", "failed", "cancelled", NoValue}
InstanceStates == {"absent", "pending", "running_no_ip", "running", "terminated"}

Phase(op) ==
  CASE op = "start" -> 0
    [] op \in {"create_security_group", "authorize_security_group_ingress",
               "create_key_pair", "write_key_file"} -> 1
    [] op = "request_spot_instances" -> 2
    [] op = "describe_spot_instance_requests" -> 3
    [] op = "cancel_spot_instance_requests" -> 4
    [] op = "describe_instances" -> 5
    [] op \in {"ssh_connect", "setup"} -> 6
    [] op = "callback" -> 7
    [] op = "terminate_instances" -> 8
    [] op = "delete_key_pair" -> 9

VARIABLES
  pc,               \* the statement of run that executes next
  result,           \* "running", "ok" (Ok(())), "err" (Err via ?), "panic"
  failed,           \* the step whose error or panic ended the run, or NoValue
  lastOp,           \* the external operation issued by the latest step
  issued,           \* every external operation issued so far
  group_id,         \* the id of the created security group, or "none"
  ingress,          \* the two ingress rules are authorized
  key_name,         \* the name the key pair was created under, or "none"
  keyExists,        \* provider side: the key pair exists
  pending,          \* self.descriptors entries the for loop has not visited
  launchSpecs,      \* the launch specifications of the issued capacity requests
  spot_request_ids, \* request ids collected from the capacity requests
  id_to_name,       \* request id / instance id -> machine set name
  sirs,             \* the latest describe_spot_instance_requests response
  polls,            \* describe_spot_instance_requests calls so far
  instances,        \* instance ids collected on loop exit
  all_active,
  cancelCalls,      \* the id sets of the cancel calls issued
  machines,         \* instance id -> [name, ssh]: the Fleet
  reports,          \* the latest describe_instances response
  readyPolls,       \* describe_instances calls so far
  bootGroup,        \* the machine set whose par_iter_mut is running
  bootDone,         \* machine sets whose par_iter_mut has returned
  worker,           \* instance id -> position of its bootstrap closure
  callbackCalls,    \* invocations of the caller's f
  terminateCalls,   \* the id sets of the terminate_instances calls issued
  terminated,       \* provider side: instances terminated
  deleteKeyCalls,   \* delete_key_pair calls issued
  bootLog,          \* instance id -> what its bootstrap closure has done
  sess_pc,          \* Session::connect: "idle", "loop", "handshake", "returned"
  elapsed,          \* Session::connect: start.elapsed() in seconds
  tcp,              \* Session::connect: result of the latest TcpStream::connect
  auth,             \* Session::connect: result of handshake and userauth
  sess_result,      \* Session::connect: "none", "session", "err", "timeout"
  everInFleet       \* instances some readiness iteration put into the Fleet

vars == <<pc, result, failed, lastOp, issued, group_id, ingress, key_name,
          keyExists, pending, launchSpecs, spot_request_ids, id_to_name, sirs,
          polls, instances, all_active, cancelCalls, machines, reports,
          readyPolls, bootGroup, bootDone, worker, callbackCalls,
          terminateCalls, terminated, deleteKeyCalls, bootLog,
          sess_pc, elapsed, tcp, auth, sess_result, everInFleet>>

provisionVars == <<group_id, ingress, key_name, keyExists>>
submitVars == <<pending, launchSpecs, spot_request_ids>>
pollVars == <<id_to_name, sirs, polls, instances, all_active>>
readyVars == <<machines, reports, readyPolls, everInFleet>>
bootVars == <<bootGroup, bootDone, worker, bootLog>>
sessionVars == <<sess_pc, elapsed, tcp, auth, sess_result>>
teardownVars == <<terminateCalls, terminated, deleteKeyCalls>>

Empty == [x \in {} |-> NoValue]

Init ==
  /\ pc = "create_security_group"
  /\ result = "running"
  /\ failed = NoValue
  /\ lastOp = "start"
  /\ issued = {}
  /\ group_id = NoValue
  /\ ingress = FALSE
  /\ key_name = NoValue
  /\ keyExists = FALSE
  /\ pending = Names
  /\ launchSpecs = {}
  /\ spot_request_ids = {}
  /\ id_to_name = Empty
  /\ sirs = Empty
  /\ polls = 0
  /\ instances = {}
  /\ all_active = FALSE
  /\ cancelCalls = <<>>
  /\ machines = Empty
  /\ reports = Empty
  /\ readyPolls = 0
  /\ bootGroup = NoValue
  /\ bootDone = {}
  /\ worker = Empty
  /\ callbackCalls = 0
  /\ terminateCalls = <<>>
  /\ terminated = {}
  /\ deleteKeyCalls = 0
  /\ bootLog = Empty
  /\ sess_pc = "idle"
  /\ elapsed = 0
  /\ tcp = NoValue
  /\ auth = NoValue
  /\ sess_result = NoValue
  /\ everInFleet = {}

\* an external operation is issued by this step
Issue(op) ==
  /\ lastOp' = op
  /\ issued' = issued \cup {op}

\* `?` on an Err: run returns the error at once
Fail(op) ==
  /\ pc' = "done"
  /\ result' = "err"
  /\ failed' = op

\* expect()/unwrap() on a None or an Err: run unwinds
Panic(op) ==
  /\ pc' = "done"
  /\ result' = "panic"
  /\ failed' = op

Goto(next) ==
  /\ pc' = next
  /\ UNCHANGED <<sessionVars, result, failed>>

\* ---- Setup firewall and key pair: lib.rs 85-143 ----
CreateSecurityGroup ==
  /\ pc = "create_security_group"
  /\ Issue("create_security_group")
  /\ \E out \in {"ok", "err", "no_group_id"} :
       \/ out = "ok" /\ group_id' = SecurityGroupId /\ Goto("authorize_security_group_ingress")
       \/ out = "err" /\ group_id' = group_id /\ Fail("create_security_group")
       \/ out = "no_group_id" /\ group_id' = group_id /\ Panic("create_security_group")
  /\ UNCHANGED <<sessionVars, ingress, key_name, keyExists, submitVars, pollVars, cancelCalls,
                 readyVars, bootVars, callbackCalls, teardownVars>>

AuthorizeSecurityGroupIngress ==
  /\ pc = "authorize_security_group_ingress"
  /\ Issue("authorize_security_group_ingress")
  /\ \E out \in {"ok", "err"} :
       \/ out = "ok" /\ ingress' = TRUE /\ Goto("create_key_pair")
       \/ out = "err" /\ ingress' = ingress /\ Fail("authorize_security_group_ingress")
  /\ UNCHANGED <<sessionVars, group_id, key_name, keyExists, submitVars, pollVars, cancelCalls,
                 readyVars, bootVars, callbackCalls, teardownVars>>

CreateKeyPair ==
  /\ pc = "create_key_pair"
  /\ Issue("create_key_pair")
  /\ \E out \in {"ok", "err", "no_key_material"} :
       \/ out = "ok" /\ key_name' = KeyName /\ keyExists' = TRUE /\ Goto("write_key_file")
       \/ out = "err" /\ UNCHANGED <<key_name, keyExists>> /\ Fail("create_key_pair")
       \/ /\ out = "no_key_material"
          /\ key_name' = KeyName /\ keyExists' = TRUE
          /\ Panic("create_key_pair")
  /\ UNCHANGED <<sessionVars, group_id, ingress, submitVars, pollVars, cancelCalls,
                 readyVars, bootVars, callbackCalls, teardownVars>>

\* NamedTempFile::new and write_all of the private key
WriteKeyFile ==
  /\ pc = "write_key_file"
  /\ Issue("write_key_file")
  /\ \E out \in {"ok", "err"} :
       \/ out = "ok" /\ Goto("request_spot_instances")
       \/ out = "err" /\ Fail("write_key_file")
  /\ UNCHANGED <<sessionVars, provisionVars, submitVars, pollVars, cancelCalls,
                 readyVars, bootVars, callbackCalls, teardownVars>>

\* ---- 1. Issue spot requests: one iteration of the for loop, lib.rs 149-181 ----
\* LaunchSpec without launch.key_name (line 157 dropped)
LaunchSpec_NoKey(name) ==
  [name |-> name, instance_count |-> descriptors[name],
   security_group_ids |-> group_id, key_name |-> NoValue]

LaunchSpec(name) ==
  [name |-> name, instance_count |-> descriptors[name],
   security_group_ids |-> group_id, key_name |-> key_name]

Extend(map, ids, name) ==
  [x \in DOMAIN map \cup ids |-> IF x \in ids THEN name ELSE map[x]]

RequestSpotInstances ==
  /\ pc = "request_spot_instances"
  /\ Issue("request_spot_instances")
  /\ \E name \in pending :
       /\ launchSpecs' = launchSpecs \cup {LaunchSpec(name)}
       /\ \E out \in {"ok", "err", "no_requests"} :
            \/ /\ out = "ok"
               \* filter_map: a returned request without an id is dropped
               /\ \E ids \in SUBSET SirIds(name) :
                    /\ spot_request_ids' = spot_request_ids \cup ids
                    /\ id_to_name' = Extend(id_to_name, ids, name)
               /\ pending' = pending \ {name}
               /\ Goto(IF pending' = {} THEN "describe_spot_instance_requests"
                                        ELSE "request_spot_instances")
            \/ /\ out \in {"err", "no_requests"}
               /\ UNCHANGED <<pending, spot_request_ids, id_to_name>>
               /\ Fail("request_spot_instances")
  /\ UNCHANGED <<sessionVars, provisionVars, sirs, polls, instances, all_active, cancelCalls,
                 readyVars, bootVars, callbackCalls, teardownVars>>

\* ---- 2. Wait for the requests: one iteration of the loop, lib.rs 188-226 ----
\* one entry of the response: state is None ("none") or a state string;
\* instance_id is Some only on a fulfilled request
SirReports ==
  {[state |-> s, instance_id |-> b] : s \in SirStates, b \in {FALSE}}
    \cup {[state |-> "active", instance_id |-> TRUE]}

\* what the provider can answer after having answered `old`:
\* a request that left "open" for a real state keeps it
Responses(old, ids) ==
  {resp \in [ids -> SirReports] :
     \A r \in ids :
       (r \in DOMAIN old /\ old[r].state \in {"active", "failed", "cancelled"})
         => resp[r] = old[r]}

\* lib.rs 194-197
any_open(resp) == \E r \in DOMAIN resp : resp[r].state = "open"

\* lib.rs 205-219, the requests the closure sees as active
Active(resp) == {r \in DOMAIN resp : resp[r].state = "active"}

\* lib.rs 201-220, the collected instance ids
Collect(resp) == {InstanceOf(r) : r \in {a \in Active(resp) : resp[a].instance_id}}

\* lib.rs 200, 216: cleared by an entry with a state other than "active";
\* an entry without a state leaves the closure at `sir.state?` before the else
AllActive(resp) ==
  \A r \in DOMAIN resp : resp[r].state \in {"active", NoValue}

\* Remap that takes the name of another machine set's request when there is one
Remap_WrongRequest(map, resp) ==
  [x \in (DOMAIN map \ Active(resp)) \cup Collect(resp) |->
     IF x \in Collect(resp)
       THEN LET others == {r \in Active(resp) : OwnerOf(r) # OwnerOf(x)}
            IN  map[IF others # {} THEN CHOOSE r \in others : TRUE
                    ELSE CHOOSE r \in Active(resp) : InstanceOf(r) = x]
       ELSE map[x]]

\* lib.rs 207-213: the name moves from the request id to the instance id;
\* it is removed before `sir.instance_id.clone()?` can leave the closure
Remap(map, resp) ==
  [x \in (DOMAIN map \ Active(resp)) \cup Collect(resp) |->
     IF x \in Collect(resp)
       THEN map[CHOOSE r \in Active(resp) : InstanceOf(r) = x]
       ELSE map[x]]

DescribeSpotInstanceRequests ==
  /\ pc = "describe_spot_instance_requests"
  /\ polls < MaxPolls
  /\ Issue("describe_spot_instance_requests")
  /\ polls' = polls + 1
  /\ \/ /\ Fail("describe_spot_instance_requests")
        /\ UNCHANGED <<id_to_name, sirs, instances, all_active>>
     \/ \E resp \in Responses(sirs, spot_request_ids) :
          /\ sirs' = resp
          /\ IF any_open(resp)
               THEN \* thread::sleep(500 ms), then the next iteration
                    /\ polls' < MaxPolls
                    /\ Goto("describe_spot_instance_requests")
                    /\ UNCHANGED <<id_to_name, instances, all_active>>
               ELSE \/ /\ instances' = Collect(resp)
                       /\ all_active' = AllActive(resp)
                       /\ id_to_name' = Remap(id_to_name, resp)
                       /\ Goto("cancel_spot_instance_requests")
                    \* an active entry without spot_instance_request_id: expect()
                    \/ /\ Active(resp) # {}
                       /\ Panic("describe_spot_instance_requests")
                       /\ UNCHANGED <<id_to_name, instances, all_active>>
  /\ UNCHANGED <<sessionVars, provisionVars, submitVars, cancelCalls,
                 readyVars, bootVars, callbackCalls, teardownVars>>

\* CancelSpotInstanceRequests that re-enters the polling loop afterwards
CancelSpotInstanceRequests_Repolls ==
  /\ pc = "cancel_spot_instance_requests"
  /\ Issue("cancel_spot_instance_requests")
  /\ cancelCalls' = Append(cancelCalls, spot_request_ids)
  /\ \/ Goto("describe_spot_instance_requests")
     \/ Fail("cancel_spot_instance_requests")
  /\ UNCHANGED <<sessionVars, provisionVars, submitVars, pollVars,
                 readyVars, bootVars, callbackCalls, teardownVars>>

\* ---- 3. Stop spot requests: lib.rs 229-234 ----
CancelSpotInstanceRequests ==
  /\ pc = "cancel_spot_instance_requests"
  /\ Issue("cancel_spot_instance_requests")
  /\ cancelCalls' = Append(cancelCalls, spot_request_ids)
  /\ \/ Goto("describe_instances")
     \/ Fail("cancel_spot_instance_requests")
  /\ UNCHANGED <<sessionVars, provisionVars, submitVars, pollVars,
                 readyVars, bootVars, callbackCalls, teardownVars>>

\* ---- 4. Wait until all instances are up: one iteration, lib.rs 244-286 ----
\* an instance contributes a Machine when it is running with a public address
Ready(reps) == {i \in DOMAIN reps : reps[i] = "running"}

\* lib.rs 263-271: a described instance that is not running or has no address
NotReady(reps) ==
  {i \in DOMAIN reps : reps[i] \in {"pending", "running_no_ip", "terminated"}}

\* Fleet without the machines.clear() of line 246
Fleet_KeepsPrevious(reps, map) ==
  [i \in Ready(reps) \cup DOMAIN machines |->
     IF i \in Ready(reps) THEN [name |-> map[i], ssh |-> FALSE] ELSE machines[i]]

\* lib.rs 246, 275-283: the Fleet of this iteration, built from empty
Fleet(reps, map) == [i \in Ready(reps) |-> [name |-> map[i], ssh |-> FALSE]]

FleetNames(fleet) == {fleet[i].name : i \in DOMAIN fleet}

\* a closure that has not run: no connect result, no setup result, the
\* routine f = &setup_fns[name] not invoked
NewLog == [connect |-> NoValue, setup |-> NoValue, calls |-> 0, routine |-> NoValue]

\* AfterReady without the `if all_active` of line 292
AfterReady_IgnoresAllActive(fleet) ==
  IF FleetNames(fleet) = {} THEN "callback" ELSE "bootstrap"

\* lib.rs 292-315: where run continues after the readiness loop
AfterReady(fleet) ==
  IF all_active
    THEN IF FleetNames(fleet) = {} THEN "callback" ELSE "bootstrap"
    ELSE "terminate_instances_1"

DescribeInstances ==
  /\ pc = "describe_instances"
  /\ readyPolls < MaxReadyPolls
  /\ Issue("describe_instances")
  /\ readyPolls' = readyPolls + 1
  /\ \/ /\ Fail("describe_instances")
        /\ machines' = Empty    \* machines.clear() precedes the call
        /\ UNCHANGED <<reports, worker, bootLog, everInFleet>>
     \* a described instance without state, or a running one without
     \* instance_type, private_ip_address or instance_id: unwrap()
     \/ /\ instances # {}
        /\ Panic("describe_instances")
        /\ machines' = Empty
        /\ UNCHANGED <<reports, worker, bootLog, everInFleet>>
     \/ \E reps \in [instances -> InstanceStates] :
          /\ reports' = reps
          /\ machines' = Fleet(reps, id_to_name)
          /\ everInFleet' = everInFleet \cup Ready(reps)
          /\ worker' = [i \in Ready(reps) |-> "idle"]
          /\ bootLog' = [i \in Ready(reps) |-> NewLog]
          /\ IF NotReady(reps) = {}
               THEN Goto(AfterReady(machines'))
               ELSE /\ readyPolls' < MaxReadyPolls
                    /\ Goto("describe_instances")
  /\ UNCHANGED <<sessionVars, provisionVars, submitVars, pollVars, cancelCalls,
                 bootGroup, bootDone, callbackCalls, teardownVars>>

\* ---- 5. Run the setup closures: lib.rs 292-312 ----
Workers(name) == {i \in DOMAIN machines : machines[i].name = name}

\* the for loop reaches the next machine set and calls par_iter_mut on it
StartGroup ==
  /\ pc = "bootstrap"
  /\ bootGroup = NoValue
  /\ \E name \in FleetNames(machines) \ bootDone : bootGroup' = name
  /\ UNCHANGED <<sessionVars, pc, result, failed, lastOp, issued, provisionVars, submitVars,
                 pollVars, cancelCalls, readyVars, bootDone, worker, bootLog,
                 callbackCalls, teardownVars>>

\* lib.rs 298-306: ssh::Session::connect(..).unwrap() in the closure of machine i
WorkerConnect(i) ==
  /\ pc = "bootstrap"
  /\ bootGroup # NoValue
  /\ i \in Workers(bootGroup)
  /\ worker[i] = "idle"
  /\ Issue("ssh_connect")
  /\ \E out \in {"ok", "err"} :
       /\ worker' = [worker EXCEPT ![i] = IF out = "ok" THEN "connected" ELSE "panicked"]
       /\ bootLog' = [bootLog EXCEPT ![i].connect = out]
  /\ UNCHANGED <<sessionVars, pc, result, failed, provisionVars, submitVars, pollVars,
                 cancelCalls, readyVars, bootGroup, bootDone, callbackCalls,
                 teardownVars>>

\* WorkerSetup that attaches the session before looking at the routine's result
WorkerSetup_AttachesFirst(i) ==
  /\ pc = "bootstrap"
  /\ bootGroup # NoValue
  /\ i \in Workers(bootGroup)
  /\ worker[i] = "connected"
  /\ Issue("setup")
  /\ \E out \in {"ok", "err"} :
       /\ bootLog' = [bootLog EXCEPT ![i].setup = out,
                                     ![i].calls = @ + 1,
                                     ![i].routine = bootGroup]
       /\ machines' = [machines EXCEPT ![i].ssh = TRUE]
       /\ worker' = [worker EXCEPT ![i] = IF out = "ok" THEN "attached" ELSE "panicked"]
  /\ UNCHANGED <<sessionVars, pc, result, failed, provisionVars, submitVars, pollVars,
                 cancelCalls, reports, readyPolls, everInFleet, bootGroup,
                 bootDone, callbackCalls, teardownVars>>

\* lib.rs 307-310: f(&mut sess).unwrap(); machine.ssh = Some(sess)
WorkerSetup(i) ==
  /\ pc = "bootstrap"
  /\ bootGroup # NoValue
  /\ i \in Workers(bootGroup)
  /\ worker[i] = "connected"
  /\ Issue("setup")
  /\ \E out \in {"ok", "err"} :
       /\ bootLog' = [bootLog EXCEPT ![i].setup = out,
                                     ![i].calls = @ + 1,
                                     ![i].routine = bootGroup]
       /\ \/ /\ out = "ok"
             /\ worker' = [worker EXCEPT ![i] = "attached"]
             /\ machines' = [machines EXCEPT ![i].ssh = TRUE]
          \/ /\ out = "err"
             /\ worker' = [worker EXCEPT ![i] = "panicked"]
             /\ machines' = machines
  /\ UNCHANGED <<sessionVars, pc, result, failed, provisionVars, submitVars, pollVars,
                 cancelCalls, reports, readyPolls, everInFleet, bootGroup,
                 bootDone,
                 callbackCalls, teardownVars>>

\* JoinGroup that leaves the for loop after the first machine set
JoinGroup_FirstGroupOnly ==
  /\ pc = "bootstrap"
  /\ bootGroup # NoValue
  /\ \A i \in Workers(bootGroup) : worker[i] = "attached"
  /\ bootDone' = bootDone \cup {bootGroup}
  /\ bootGroup' = NoValue
  /\ Goto("callback")
  /\ UNCHANGED <<sessionVars, lastOp, issued, provisionVars, submitVars, pollVars,
                 cancelCalls, readyVars, worker, bootLog, callbackCalls,
                 teardownVars>>

\* for_each returns: every closure of the machine set has finished
JoinGroup ==
  /\ pc = "bootstrap"
  /\ bootGroup # NoValue
  /\ \A i \in Workers(bootGroup) : worker[i] = "attached"
  /\ bootDone' = bootDone \cup {bootGroup}
  /\ bootGroup' = NoValue
  /\ Goto(IF FleetNames(machines) \subseteq bootDone' THEN "callback" ELSE "bootstrap")
  /\ UNCHANGED <<sessionVars, lastOp, issued, provisionVars, submitVars, pollVars,
                 cancelCalls, readyVars, worker, bootLog, callbackCalls,
                 teardownVars>>

\* for_each resumes the panic of a closure: run unwinds. Closures that have
\* not started may or may not still be run; none is left half-way.
JoinPanic ==
  /\ pc = "bootstrap"
  /\ bootGroup # NoValue
  /\ \E i \in Workers(bootGroup) : worker[i] = "panicked"
  /\ \A i \in Workers(bootGroup) : worker[i] # "connected"
  /\ Panic("bootstrap")
  /\ UNCHANGED <<sessionVars, lastOp, issued, provisionVars, submitVars, pollVars,
                 cancelCalls, readyVars, bootVars, callbackCalls, teardownVars>>

\* Callback after which the terminate_instances calls are skipped
Callback_SkipsTerminate ==
  /\ pc = "callback"
  /\ Issue("callback")
  /\ callbackCalls' = callbackCalls + 1
  /\ \/ Goto("delete_key_pair")
     \/ Fail("callback")
  /\ UNCHANGED <<sessionVars, provisionVars, submitVars, pollVars, cancelCalls,
                 readyVars, bootVars, teardownVars>>

\* ---- 5. Invoke the caller's closure: lib.rs 314 ----
Callback ==
  /\ pc = "callback"
  /\ Issue("callback")
  /\ callbackCalls' = callbackCalls + 1
  /\ \/ Goto("terminate_instances_1")
     \/ Fail("callback")
  /\ UNCHANGED <<sessionVars, provisionVars, submitVars, pollVars, cancelCalls,
                 readyVars, bootVars, teardownVars>>

\* ---- 6. Terminate all instances: lib.rs 320-348 ----
\* one terminate_instances call on desc_req.instance_ids
Terminate(next) ==
  /\ Issue("terminate_instances")
  /\ terminateCalls' = Append(terminateCalls, instances)
  /\ \/ terminated' = terminated \cup instances /\ Goto(next)
     \/ terminated' = terminated /\ Fail("terminate_instances")
  /\ UNCHANGED <<sessionVars, provisionVars, submitVars, pollVars, cancelCalls,
                 readyVars, bootVars, callbackCalls, deleteKeyCalls>>

\* lib.rs 320-327
TerminateInstances1 ==
  /\ pc = "terminate_instances_1"
  /\ Terminate("terminate_instances_2")

\* lib.rs 329-336
TerminateInstances2 ==
  /\ pc = "terminate_instances_2"
  /\ Terminate("delete_key_pair")

\* lib.rs 344-350
DeleteKeyPair ==
  /\ pc = "delete_key_pair"
  /\ Issue("delete_key_pair")
  /\ deleteKeyCalls' = deleteKeyCalls + 1
  /\ \/ /\ keyExists' = FALSE
        /\ pc' = "done" /\ result' = "ok" /\ failed' = failed
     \/ /\ keyExists' = keyExists
        /\ Fail("delete_key_pair")
  /\ UNCHANGED <<sessionVars, group_id, ingress, key_name, submitVars, pollVars, cancelCalls,
                 readyVars, bootVars, callbackCalls, terminateCalls, terminated>>

\* ======== ssh::Session::connect, src/src/ssh.rs 16-64 ========
\* One call of connect, as each bootstrap closure makes it; WorkerConnect
\* above is its outcome as run sees it.

\* let timeout = Duration::from_secs(120)
Timeout == 120
\* the host refuses connections for at most Timeout + MaxOvertime seconds
MaxOvertime == 2

runVars == <<pc, result, failed, lastOp, issued, provisionVars, submitVars,
             pollVars, cancelCalls, readyVars, bootVars, callbackCalls,
             teardownVars>>

\* ssh.rs 19-20: let start = Instant::now()
SessionConnect ==
  /\ sess_pc = "idle"
  /\ sess_pc' = "loop"
  /\ elapsed' = 0
  /\ UNCHANGED <<runVars, tcp, auth, sess_result>>

\* error kinds of TcpStream::connect after which the loop sleeps a second
RetryKinds == {"refused", "timed_out"}

\* ssh.rs 41: sleep(1 s) after ConnectionRefused / TimedOut; any other
\* kind loops again at once
Slept(kind) == IF kind \in RetryKinds THEN {1} ELSE {0, 1}

\* TcpConnect that gives up on the first refused attempt
TcpConnect_NoRetry ==
  /\ sess_pc = "loop"
  /\ \E out \in {"ok", "refused", "timed_out", "other"} :
       /\ tcp' = out
       /\ \/ /\ out = "ok"
             /\ sess_pc' = "handshake"
             /\ UNCHANGED <<elapsed, sess_result>>
          \/ /\ out # "ok"
             /\ elapsed < Timeout + MaxOvertime
             /\ sess_pc' = "returned"
             /\ sess_result' = "err"
             /\ UNCHANGED elapsed
  /\ UNCHANGED <<runVars, auth>>

\* ssh.rs 22-47: one iteration of the loop. The body of
\* `if start.elapsed() > timeout` is a comment, so a failed attempt
\* continues the loop whatever the elapsed time.
TcpConnect ==
  /\ sess_pc = "loop"
  /\ \E out \in {"ok", "refused", "timed_out", "other"} :
       /\ tcp' = out
       /\ \/ /\ out = "ok"
             /\ sess_pc' = "handshake"
             /\ elapsed' = elapsed
          \/ /\ out # "ok"
             /\ elapsed < Timeout + MaxOvertime
             /\ sess_pc' = "loop"
             /\ \E d \in Slept(out) : elapsed' = elapsed + d
  /\ UNCHANGED <<runVars, auth, sess_result>>

\* ssh.rs 49-64: Session::new, handshake, userauth_pubkey_file, each with `?`
Handshake ==
  /\ sess_pc = "handshake"
  /\ \E out \in {"ok", "err"} :
       /\ auth' = out
       /\ sess_result' = IF out = "ok" THEN "session" ELSE "err"
  /\ sess_pc' = "returned"
  /\ UNCHANGED <<runVars, elapsed, tcp>>

ConnectNext ==
  \/ SessionConnect
  \/ TcpConnect
  \/ Handshake

ConnectSpec == Init /\ [][ConnectNext]_vars

\* the thread that called connect keeps running
ConnectFairSpec == ConnectSpec /\ WF_vars(ConnectNext)

Next ==
  \/ CreateSecurityGroup
  \/ AuthorizeSecurityGroupIngress
  \/ CreateKeyPair
  \/ WriteKeyFile
  \/ RequestSpotInstances
  \/ DescribeSpotInstanceRequests
  \/ CancelSpotInstanceRequests
  \/ DescribeInstances
  \/ StartGroup
  \/ \E i \in AllInstanceIds : WorkerConnect(i)
  \/ \E i \in AllInstanceIds : WorkerSetup(i)
  \/ JoinGroup
  \/ JoinPanic
  \/ Callback
  \/ TerminateInstances1
  \/ TerminateInstances2
  \/ DeleteKeyPair

Spec == Init /\ [][Next]_vars

TypeOK ==
  /\ result \in {"running", "ok", "err", "panic"}
  /\ spot_request_ids \subseteq AllSirIds
  /\ instances \subseteq AllInstanceIds
  /\ polls \in 0..MaxPolls
  /\ readyPolls \in 0..MaxReadyPolls

\* ======================= properties =======================

\* run has returned or unwound
Ended == result # "running"

\* the loop of lib.rs 188-226 was left through its `break`
LoopExited ==
  \/ pc = "cancel_spot_instance_requests"
  \/ "cancel_spot_instance_requests" \in issued

\* instances the provider launched for this run: those of fulfilled requests
Launched == {InstanceOf(r) : r \in Active(sirs)}

\* both terminate_instances calls were issued on the collected ids, and
\* delete_key_pair was issued
TeardownIssued ==
  /\ Len(terminateCalls) >= 1
  /\ \A k \in 1..Len(terminateCalls) : terminateCalls[k] = instances
  /\ deleteKeyCalls >= 1

\* the provider side after a teardown whose calls all succeeded
TornDown ==
  /\ Launched \subseteq terminated
  /\ ~keyExists

BootstrapAttempted == "ssh_connect" \in issued

NoBootstrapNoCallback ==
  /\ "ssh_connect" \notin issued
  /\ "setup" \notin issued
  /\ callbackCalls = 0
  /\ \A i \in DOMAIN machines : ~machines[i].ssh

\* C1: however run ends, every instance launched for it is terminated and
\* the key pair it created is deleted.
C1_EveryEndTornDown == Ended => TornDown

\* C2: when the callback returns an error, run surfaces it, and
\* terminate_instances on the collected ids and delete_key_pair are still issued.
C2_CallbackErrorStillTearsDown ==
  (Ended /\ failed = "callback") => (result = "err" /\ TeardownIssued)

\* C3: on every path on which bootstrap was attempted, also when a connect or
\* a setup routine fails, the run ends with teardown issued.
C3_BootstrapAttemptedTearsDown ==
  (Ended /\ BootstrapAttempted) => TeardownIssued

\* C4 (as stated): when all_active is false, bootstrap, callback,
\* terminate_instances and delete_key_pair are all skipped.
C4_Original ==
  (LoopExited /\ ~all_active) =>
     /\ NoBootstrapNoCallback
     /\ terminateCalls = <<>>
     /\ deleteKeyCalls = 0

\* C4 (amended): when all_active is false, bootstrap and the callback are
\* skipped, but teardown is not: a run that then returns Ok has issued
\* terminate_instances on the collected ids and delete_key_pair, and the
\* collected instances are terminated.
C4_Amended ==
  (LoopExited /\ ~all_active) =>
     /\ NoBootstrapNoCallback
     /\ pc \notin {"bootstrap", "callback"}
     /\ (result = "ok" =>
           /\ Len(terminateCalls) = 2
           /\ TeardownIssued
           /\ deleteKeyCalls = 1
           /\ instances \subseteq terminated
           /\ ~keyExists)
     /\ (Ended /\ failed \in {"delete_key_pair"} => instances \subseteq terminated)

C4_Witness ==
  /\ LoopExited /\ ~all_active
  /\ result = "ok"
  /\ instances # {}
  /\ instances \subseteq terminated
  /\ deleteKeyCalls = 1

\* C5 (as stated): when run returns Ok, the callback has returned and
\* teardown has completed.
C5_Original ==
  result = "ok" => (callbackCalls >= 1 /\ TeardownIssued /\ ~keyExists)

\* C5 (amended): when run returns Ok, teardown has completed (both
\* terminate_instances calls on the collected ids, then delete_key_pair);
\* the callback has returned, once, when all_active is true, and was never
\* invoked when all_active is false.
C5_Amended ==
  result = "ok" =>
     /\ callbackCalls = (IF all_active THEN 1 ELSE 0)
     /\ Len(terminateCalls) = 2
     /\ TeardownIssued
     /\ instances \subseteq terminated
     /\ deleteKeyCalls = 1
     /\ ~keyExists

C5_Witness ==
  /\ result = "ok"
  /\ all_active
  /\ callbackCalls = 1
  /\ Cardinality(instances) = 2
  /\ instances \subseteq terminated

\* run is past the callback
PastCallback ==
  \/ pc \in {"terminate_instances_1", "terminate_instances_2", "delete_key_pair"}
  \/ result = "ok"
  \/ (Ended /\ failed \in {"callback", "terminate_instances", "delete_key_pair"})

\* C6: the callback is invoked at most once; when it is invoked every
\* Machine of the Fleet has its session attached; and a run with all_active
\* whose bootstrap succeeded invokes it exactly once.
C6_CallbackOnceOnBootstrappedFleet ==
  /\ callbackCalls <= 1
  /\ (pc = "callback" \/ callbackCalls >= 1) =>
        /\ \A i \in DOMAIN machines : machines[i].ssh /\ worker[i] = "attached"
        /\ FleetNames(machines) \subseteq bootDone
  /\ (LoopExited /\ all_active /\ PastCallback) => callbackCalls = 1

C6_Witness ==
  /\ callbackCalls = 1
  /\ Cardinality(DOMAIN machines) = 2
  /\ \A i \in DOMAIN machines : machines[i].ssh

\* C7: the operations are issued in phase order and no phase is re-entered:
\* every step issues an operation of the current phase or of a later one.
C7_PhasesInOrder == [][Phase(lastOp') >= Phase(lastOp)]_vars

C7_Witness ==
  /\ result = "ok"
  /\ issued = {"create_security_group", "authorize_security_group_ingress",
               "create_key_pair", "write_key_file", "request_spot_instances",
               "describe_spot_instance_requests", "cancel_spot_instance_requests",
               "describe_instances", "ssh_connect", "setup", "callback",
               "terminate_instances", "delete_key_pair"}

ProvisionSteps ==
  {"create_security_group", "authorize_security_group_ingress",
   "create_key_pair", "write_key_file"}

\* C8: a capacity request is issued only after the security group, its
\* ingress rules and the key pair were created, and carries that group id and
\* key name; a failed provisioning step ends the run with none issued.
C8_RequestsCarryProvisionedResources ==
  /\ launchSpecs # {} =>
        group_id = SecurityGroupId /\ ingress /\ key_name = KeyName
  /\ \A l \in launchSpecs :
        l.security_group_ids = SecurityGroupId /\ l.key_name = KeyName
  /\ (group_id = NoValue \/ ~ingress \/ key_name = NoValue) =>
        "request_spot_instances" \notin issued
  /\ (Ended /\ failed \in ProvisionSteps) =>
        result \in {"err", "panic"} /\ launchSpecs = {} /\ spot_request_ids = {}

C8_Witness ==
  /\ Cardinality(launchSpecs) = 2
  /\ Cardinality(spot_request_ids) = 2

PollingEnded ==
  /\ polls >= 1
  /\ pc \notin {"describe_spot_instance_requests", "cancel_spot_instance_requests"}

\* C10: on every path on which the polling phase ends, exactly one cancel
\* call was issued, on all submitted request ids.
C10_CancelAlwaysIssued ==
  PollingEnded => (Len(cancelCalls) = 1 /\ cancelCalls[1] = spot_request_ids)

\* C11: when the readiness poller has returned, the Fleet holds one Machine
\* for each instance of the last response that is running with a public
\* address, and none for any other instance, whatever earlier iterations held.
ReadyReturned ==
  /\ "describe_instances" \in issued
  /\ pc # "describe_instances"
  /\ ~(Ended /\ failed = "describe_instances")

C12_DeadlineEndsRetry ==
  [][(sess_pc = "loop" /\ elapsed > Timeout /\ tcp' # "ok")
        => (sess_pc' = "returned" /\ sess_result' = "timeout")]_vars

C14_TeardownBestEffort ==
  /\ (Ended /\ failed = "terminate_instances") => deleteKeyCalls >= 1
  /\ (Ended /\ failed = "delete_key_pair") => Len(terminateCalls) >= 1

\* C15: under every interleaving of the bootstrap closures, a Machine has a
\* session attached exactly when its connect succeeded and its set's routine
\* returned success on that session; no routine is invoked twice on a
\* machine; after a failed connect or routine the callback is not invoked.
C15_AttachedIffBootstrapped ==
  /\ \A i \in DOMAIN machines :
        /\ machines[i].ssh <=> (bootLog[i].connect = "ok" /\ bootLog[i].setup = "ok")
        /\ bootLog[i].calls <= 1
        /\ bootLog[i].setup # NoValue => bootLog[i].connect = "ok"
  /\ (\E i \in DOMAIN bootLog : "err" \in {bootLog[i].connect, bootLog[i].setup})
        => (callbackCalls = 0 /\ pc # "callback")

\* both closures of the two-machine set were running at once, one
\* finished first and one failed
C15_Witness ==
  /\ \E i, j \in DOMAIN machines :
        /\ i # j
        /\ machines[i].name = machines[j].name
        /\ machines[i].ssh
        /\ bootLog[j].setup = "err"
        /\ bootLog[j].calls = 1
  /\ result = "panic"

\* C16: when the polling loop is left, all_active is true only if every
\* submitted request id is reported active.
C16_AllActiveMeansAllActive ==
  (LoopExited /\ all_active) =>
     \A r \in spot_request_ids : r \in DOMAIN sirs /\ sirs[r].state = "active"

\* C17: when bootstrap starts, the Fleet holds exactly the instances of the
\* fulfilled requests, one Machine each.
C17_FleetIsFulfilledRequests ==
  pc = "bootstrap" => DOMAIN machines = Launched

\* C18: every key of the lookup and every Machine of the Fleet is listed
\* under the name of the descriptor whose capacity request produced it, that
\* name is a registered one, and the routine run on a machine is the one
\* registered under the machine's own set.
C18_NamesResolveToOwnDescriptor ==
  /\ \A x \in DOMAIN id_to_name :
        id_to_name[x] = OwnerOf(x) /\ id_to_name[x] \in Names
  /\ \A i \in DOMAIN machines :
        /\ machines[i].name = OwnerOf(i)
        /\ machines[i].name \in Names
        /\ bootLog[i].routine \in {NoValue, OwnerOf(i)}
  /\ DOMAIN id_to_name \subseteq (IF LoopExited THEN AllInstanceIds \cup AllSirIds
                                                ELSE AllSirIds)

C18_Witness ==
  /\ Cardinality(DOMAIN machines) = 3
  /\ \A i \in DOMAIN machines : bootLog[i].routine = OwnerOf(i)
  /\ DOMAIN id_to_name = AllInstanceIds

\* C19: when the readiness poller has returned, the Fleet has as many
\* Machines as instance ids were awaited.
C19_FleetHasEveryAwaitedInstance ==
  ReadyReturned => Cardinality(DOMAIN machines) = Cardinality(instances)

\* C20: the readiness poller returns only on an iteration in which every
\* described instance is running with a public address, and never while an
\* awaited instance has not reported running with a public address.
C20_ReturnsOnlyWhenAllAwaitedRunning ==
  ReadyReturned =>
     /\ NotReady(reports) = {}
     /\ \A i \in instances : reports[i] = "running"

====
